---- MODULE Spec2Model ----
(***************************************************************************)
(* Client-side authentication / session-lifecycle manager of culinarycanvas *)
(* (src/src/hooks/useAuth.tsx): AuthProvider's state, initAuth, login,      *)
(* register, logout, refreshAuth and the profile resolver processSession.   *)
(*                                                                          *)
(* Conventions.  A nullable JavaScript value is a sequence of length <= 1   *)
(* (None is null, Some(x) is x).  Strings the code takes apart (e-mail      *)
(* addresses, usernames) are sequences of one-character strings, the empty  *)
(* sequence standing for a falsy string (undefined, null or '').  Every     *)
(* await of the code is the boundary between two actions.  The bookkeeping  *)
(* field lastInitialized (a Date.now() stamp nothing reads) is left out.    *)
(***************************************************************************)
EXTENDS Integers, Sequences, FiniteSets, TLC

\* ------------------------------------------------------------------ bounds
\* the instant the model runs at, in milliseconds (what Date.now() returns)
NowMs == 1000000000

\* number of stimuli from outside (the public calls login, register, logout
\* and refreshAuth, the provider's events, the unmount) a behaviour may
\* contain, besides the initialization of the mount
MaxCalls == 1

\* the largest value of AuthGuard's authChecks counter that is followed
MaxAuthChecks == 2
\* the largest maxAttempts withRetry is called with on its own
MaxAttempts == 3
\* bound on the calls of refetch of a useSupabaseQuery hook
MaxRefetch == 1

\* ------------------------------------------------------- program constants
MAX_RETRY_ATTEMPTS == 3
maxRetries == 3
SevenDaysMs == 7 * 24 * 60 * 60 * 1000

None == <<>>
Some(x) == <<x>>

NowSec == NowMs \div 1000
DaySec == 24 * 60 * 60

\* ------------------------------------------------------------- test data
\* "chef@x": the local part is alphanumeric
Email1 == <<"c", "h", "e", "f", "@", "x">>
\* "n.w@x": the local part holds a character the username derivation strips
Email2 == <<"n", ".", "w", "@", "x">>
\* the characters of the model's alphabet that match /[a-zA-Z0-9]/
Alnum == {"c", "h", "e", "f", "n", "w", "x", "m", "u", "s", "r", "0", "1"}
\* outcomes of Math.floor(Math.random() * 10000), as digits
Rand == {"0", "1"}
\* the username argument of register(): "newchef", abbreviated
UsernameArg == <<"n", "c">>
\* the username of a profile row that existed before the process started
RowUsername == <<"c", "m">>

UserIds == {"u1", "u2"}
EmailOf(id) == IF id = "u1" THEN Email1 ELSE Email2

\* ------------------------------------------------- sessions and users
\* A Session: the token triple, the provider's user record and `full`, which
\* says whether the provider's other fields (token_type, ...) are present.
MkSession(tok, ref, exp, usr, full) ==
  [access_token |-> tok, refresh_token |-> ref, expires_at |-> exp,
   user |-> usr, full |-> full]

\* the session the identity provider issues for an account
ProviderSession(id) ==
  MkSession("at_" \o id, "rt_" \o id, NowSec + 3600,
            Some([id |-> id, email |-> EmailOf(id)]), TRUE)

MkUser(id, username, email, fn, ln) ==
  [id |-> id, username |-> username, email |-> email,
   first_name |-> fn, last_name |-> ln]

\* email.split('@')[0]
RECURSIVE LocalPart(_)
LocalPart(e) ==
  IF e = <<>> \/ Head(e) = "@" THEN <<>>
  ELSE <<Head(e)>> \o LocalPart(Tail(e))

IsAlnum(c) == c \in Alnum
\* s.replace(/[^a-zA-Z0-9]/g, '')
StripNonAlnum(s) == SelectSeq(s, IsAlnum)

\* fallbackUsername / createSessionOnlyUser's username
FallbackUsername(email, rnd) ==
  IF email # <<>> THEN StripNonAlnum(LocalPart(email))
  ELSE <<"u", "s", "e", "r", "_", rnd>>

createSessionOnlyUser(session, rnd) ==
  MkUser(session.user[1].id,
         FallbackUsername(session.user[1].email, rnd),
         session.user[1].email, "undefined", "undefined")

\* a || b on strings
OrElse(a, b) == IF a # <<>> THEN a ELSE b

\* ------------------------------------------------ Retry/Timeout executor
\* A thrown value: isError says whether it is an instance of Error; message
\* is one of the message classes below.
Thrown(isError, message) == [isError |-> isError, message |-> message]
NoError == Thrown(FALSE, "")
\* one invocation of an operation: it throws `err` or resolves with `res`
Threw(err) == [thrown |-> TRUE, err |-> err, res |-> None]
Resolved(res) == [thrown |-> FALSE, err |-> NoError, res |-> Some(res)]

\* The for loop of withRetry from attempt number `attempt` on.  outs[i] is
\* what the i-th invocation of the operation does; waits counts the backoff
\* sleeps taken.
RECURSIVE withRetryLoop(_, _, _, _, _)
withRetryLoop(outs, attempt, maxAttempts, lastError, waits) ==
  IF attempt > maxAttempts
  THEN [thrown |-> TRUE, err |-> lastError, res |-> None,
        attempts |-> attempt - 1, waits |-> waits]
  ELSE IF ~outs[attempt].thrown
  THEN [thrown |-> FALSE, err |-> NoError, res |-> outs[attempt].res,
        attempts |-> attempt, waits |-> waits]
  ELSE withRetryLoop(outs, attempt + 1, maxAttempts, outs[attempt].err,
                     IF attempt < maxAttempts THEN waits + 1 ELSE waits)

\* a retry that also sleeps after the final failed attempt
withRetry_sleepsAfterLastAttempt(outs, maxAttempts) ==
  LET r == withRetryLoop(outs, 1, maxAttempts, Thrown(FALSE, "undefined"), 0)
  IN  IF r.thrown THEN [r EXCEPT !.waits = r.waits + 1] ELSE r

\* lines 102-129: withRetry(operation, maxAttempts)
withRetry(outs, maxAttempts) ==
  withRetryLoop(outs, 1, maxAttempts, Thrown(FALSE, "undefined"), 0)

\* ---------------------------------------------------------- profile store
\* A row of the profiles table.
MkRow(id, username, email, fn, ln) ==
  [id |-> id, username |-> username, email |-> email,
   first_name |-> fn, last_name |-> ln]

\* What one profile-store request does, as seen by the caller:
\*   "ok"       the store answers
\*   "dberr"    the request resolves with an error result (any code but
\*              PGRST116; a failed fetch is reported this way by the client)
\*   "rejnet"   the request rejects with Error("Failed to fetch")
\*   "timeout"  the raced timer rejects first with Error("... timed out")
\*   "rejother" the request rejects with another Error
LookupOutcomes == {"ok", "dberr", "rejnet", "timeout", "rejother"}
ProbeOutcomes == {"ok", "dberr", "timeout", "rejother"}
InsertOutcomes == {"ok", "dberr", "rejother"}
UpdateOutcomes == {"ok", "dberr"}

\* the result object of .select('*').eq('id', id).single()
SelectSingle(store, id) ==
  IF id \in DOMAIN store /\ store[id] # None
  THEN [data |-> store[id], code |-> ""]
  ELSE IF id \in DOMAIN store
  THEN [data |-> None, code |-> "PGRST116"]
  ELSE [data |-> None, code |-> "22P02"]

\* one raced profile query of processSession (lines 269-280)
LookupAttempt(kind, store, id) ==
  CASE kind = "ok" -> Resolved(SelectSingle(store, id))
    [] kind = "dberr" -> Resolved([data |-> None, code |-> "500"])
    [] kind = "rejnet" -> Threw(Thrown(TRUE, "Failed to fetch"))
    [] kind = "timeout" -> Threw(Thrown(TRUE, "Profile query timed out"))
    [] OTHER -> Threw(Thrown(TRUE, "boom"))

\* a classification that does not know the timeout message
IsNetworkError_withoutTimeout(err) ==
  /\ err.isError
  /\ err.message \in {"Failed to fetch", "Network request failed"}

\* err instanceof Error && (message includes "Failed to fetch", "Network"
\* or "timed out"); substring tests are taken on the message classes
IsNetworkError(err) ==
  /\ err.isError
  /\ err.message \in {"Failed to fetch", "Network request failed",
                      "Profile query timed out"}

\* the result of .insert(row).select().single(): the primary key rejects a
\* second row with the same id
InsertRow(store, row) ==
  IF row.id \in DOMAIN store /\ store[row.id] = None
  THEN [store |-> [store EXCEPT ![row.id] = Some(row)], data |-> Some(row),
        code |-> ""]
  ELSE [store |-> store, data |-> None, code |-> "23505"]

\* .update({username}).eq('id', id): no row matches an undefined id
UpdateUsername(store, id, username) ==
  IF id \in DOMAIN store /\ store[id] # None
  THEN [store EXCEPT ![id] = Some([store[id][1] EXCEPT !.username = username])]
  ELSE store

\* ------------------------------------------------------- Profile resolver
\* What the profile store does during one processSession call: the three
\* raced lookups, the reachability probe, the insert, the fire-and-forget
\* update, and the Math.random() draw.
Oracles ==
  [lk : [1..MAX_RETRY_ATTEMPTS -> LookupOutcomes], probe : ProbeOutcomes,
   ins : InsertOutcomes, upd : UpdateOutcomes, rnd : Rand, rnd2 : Rand]

\* the value of a processSession call: the User it resolves to (or null),
\* whether it rejected, the store afterwards, and the store operations made
PSRet(ret, thrown, store, ops) ==
  [ret |-> ret, thrown |-> thrown, store |-> store, ops |-> ops]

\* The variable `profile` (lines 266-298).  kind is "null", "row" (a profile
\* row) or "result": on an error result the assignment of line 268 has
\* already stored the whole response object {data, error} in the variable,
\* and only the no-error branch (line 297) replaces it by the row.
NullProfile == [kind |-> "null", row |-> None]
ResultObject == [kind |-> "result", row |-> None]
RowProfile(data) ==
  IF data = None THEN NullProfile ELSE [kind |-> "row", row |-> data]

profileAfterLookup(q) ==
  IF q.thrown THEN NullProfile
  ELSE IF q.res[1].code # "" THEN ResultObject
  ELSE RowProfile(q.res[1].data)

\* what the try block of lines 267-298 throws, NoError if nothing
lookupThrows(q) ==
  IF q.thrown THEN q.err
  ELSE IF q.res[1].code \notin {"", "PGRST116"}
  THEN Thrown(FALSE, "db error " \o q.res[1].code)
  ELSE NoError

\* fields of `profile` as the code reads them (lines 372-402)
ProfileId(p) == IF p.kind = "row" THEN p.row[1].id ELSE "undefined"
ProfileUsername(p) == IF p.kind = "row" THEN p.row[1].username ELSE <<>>
ProfileEmail(p) == IF p.kind = "row" THEN p.row[1].email ELSE <<>>
ProfileFirst(p) == IF p.kind = "row" THEN p.row[1].first_name ELSE "undefined"
ProfileLast(p) == IF p.kind = "row" THEN p.row[1].last_name ELSE "undefined"

\* lines 316-361: the reachability probe and the insert of the basic profile
createMissingProfile(store, userId, fallbackUsername, userEmail, o) ==
  LET basicProfile == MkRow(userId, fallbackUsername, userEmail, "null", "null")
      ins == IF o.ins = "ok" THEN InsertRow(store, basicProfile)
             ELSE [store |-> store, data |-> None, code |-> "500"]
  IN  IF o.probe # "ok"
      THEN [profile |-> NullProfile, store |-> store, ops |-> <<"probe">>]
      ELSE [profile |-> IF ins.code = "" THEN RowProfile(ins.data)
                        ELSE NullProfile,
            store |-> ins.store, ops |-> <<"probe", "insert">>]

\* lines 371-403: the User built from `profile`, with the username backfill
formatUser(profile, s, store, fallbackUsername, o, ops) ==
  LET username == OrElse(ProfileUsername(profile), fallbackUsername)
      backfill == ProfileUsername(profile) = <<>> /\ username # <<>>
      store2 == IF backfill /\ o.upd = "ok"
                THEN UpdateUsername(store, ProfileId(profile), username)
                ELSE store
  IN  PSRet(Some(MkUser(ProfileId(profile), username,
                        OrElse(ProfileEmail(profile), s.user[1].email),
                        ProfileFirst(profile), ProfileLast(profile))),
            FALSE, store2,
            IF backfill THEN ops \o <<"update">> ELSE ops)

\* a fallback that gives up instead of building the local-only user
localOnlyUser_returnsNull(s, o, store, ops) == PSRet(None, FALSE, store, ops)

\* lines 363-369: without a profile, the minimal user built from the session
localOnlyUser(s, o, store, ops) ==
  PSRet(Some(createSessionOnlyUser(s, o.rnd2)), FALSE, store, ops)

\* lines 247-423.  The retry count of the lookup is the literal 3 of line 281,
\* the value of MAX_RETRY_ATTEMPTS.
processSession(newSession, store, o) ==
  IF newSession = None \/ newSession[1].user = None
  THEN PSRet(None, FALSE, store, <<>>)
  ELSE
    LET s == newSession[1]
        userId == s.user[1].id
        userEmail == s.user[1].email
        fallbackUsername == FallbackUsername(userEmail, o.rnd)
        q == withRetry([i \in 1..MAX_RETRY_ATTEMPTS |->
                          LookupAttempt(o.lk[i], store, userId)],
                       MAX_RETRY_ATTEMPTS)
        selects == [i \in 1..q.attempts |-> "select"]
        err == lookupThrows(q)
        profile1 == profileAfterLookup(q)
        created == createMissingProfile(store, userId, fallbackUsername,
                                        userEmail, o)
        profile2 == IF profile1.kind = "null" THEN created.profile
                    ELSE profile1
        store2 == IF profile1.kind = "null" THEN created.store ELSE store
        ops2 == IF profile1.kind = "null" THEN selects \o created.ops
                ELSE selects
    IN  IF err # NoError /\ IsNetworkError(err)
        THEN PSRet(Some(createSessionOnlyUser(s, o.rnd2)), FALSE, store, selects)
        ELSE IF profile2.kind = "null"
        THEN localOnlyUser(s, o, store2, ops2)
        ELSE formatUser(profile2, s, store2, fallbackUsername, o, ops2)

\* ------------------------------------------------------------------ state
VARIABLES
  authState,         \* useState<AuthState>: user, session, initialized
  isLoading,         \* useState(true)
  authInitializing,  \* useRef(false): an initAuth run is in flight
  authInitialized,   \* useRef(false): an initAuth run has finished
  storage,           \* localStorage: the keys auth_user and auth_session
  profiles,          \* the profiles table, by user id
  prov,              \* the identity provider's current session
  mounted,           \* the main effect of AuthProvider has run
  effectDeps,        \* authState.initialized as of the main effect's last run
  init,              \* the initAuth run: pc, retryCount, newSession
  bg,                \* the session of a processSession call that lost its race
  lg,                \* the login() call in flight
  rg,                \* the register() call in flight
  lo,                \* the logout() call in flight
  initTick,          \* flips at every invocation of initAuth()
  ret,               \* what the last finished public call returned
  calls,             \* number of calls, provider events and unmounts so far
  ps,                \* a processSession call on its own: inputs and value
  sessionListenerSet,\* useRef(false): setupAuthListener has subscribed
  subs,              \* active subscriptions to the provider's event stream
  ev,                \* the event handler in flight: pc, event, session
  hret,              \* handlers ended so far, and whether the last one threw
  unmounted,         \* AuthProvider has been unmounted
  cleanup,           \* the main effect's last run returned a cleanup function
  guard,             \* an AuthGuard on its own: context, state, refs, timers
  wr,                \* a withRetry call on its own: inputs and outcome
  sq                 \* a useSupabaseQuery hook on its own: state, refs, fetch

coreVars == <<authState, isLoading, authInitializing, authInitialized, storage>>
envVars == <<profiles, prov>>
procVars == <<mounted, effectDeps, init, bg, lg, rg, lo, initTick, ret,
              calls>>
lsnVars == <<sessionListenerSet, subs, ev, hret, unmounted, cleanup>>
vars == <<coreVars, envVars, procVars, ps, lsnVars, guard, wr, sq>>

defaultAuthState == [user |-> None, session |-> None, initialized |-> FALSE]

\* a projection that keeps the whole session
sessionData_wholeSession(s) == s

\* the projection of a Session that storeAuthState writes (lines 76-80)
sessionData(s) ==
  [access_token |-> s.access_token, refresh_token |-> s.refresh_token,
   expires_at |-> s.expires_at]

\* storeAuthState: the contents of localStorage after the call
storeAuthState(state) ==
  [auth_user |-> state.user,
   auth_session |-> IF state.session # None
                    THEN Some(sessionData(state.session[1])) ELSE None]

\* a merge that starts from the default state instead of the previous one
Merge_fromDefault(prev, newState) ==
  [k \in DOMAIN prev |-> IF k \in DOMAIN newState THEN newState[k]
                         ELSE defaultAuthState[k]]

\* { ...prev, ...newState }
Merge(prev, newState) ==
  [k \in DOMAIN prev |-> IF k \in DOMAIN newState THEN newState[k] ELSE prev[k]]

\* an update that persists whatever the result is
updateAuthState_alwaysPersists(newState) ==
  /\ authState' = Merge(authState, newState)
  /\ storage' = storeAuthState(Merge(authState, newState))

\* updateAuthState(newState): merge, persist when the result is initialized
updateAuthState(newState) ==
  LET updatedState == Merge(authState, newState)
  IN  /\ authState' = updatedState
      /\ storage' = IF updatedState.initialized
                    THEN storeAuthState(updatedState) ELSE storage

Cleared == [session |-> None, user |-> None, initialized |-> TRUE]

\* -------------------------------------------------------------- initAuth
\* the locals of an initAuth run; they end with the run.  lateGet follows,
\* until the run ends, the getSession() calls of the run that lost their race
\* against the timer of lines 459-462: "pending", or "settled" once they
\* have resolved or rejected.  caught is what the catch of lines 595-596 of
\* the last run that ended was given (and logged): "none" if it was not
\* entered, "result" for the provider's error result thrown at line 519,
\* "exhausted" for the Error of line 515.
IdleInit == [pc |-> "idle", retryCount |-> 0, newSession |-> None,
             lateGet |-> "none", caught |-> "none"]

\* a finally block that forgets to clear the in-flight flag
InitFinally_keepsFlag(caught) ==
  /\ isLoading' = FALSE
  /\ authInitializing' = authInitializing
  /\ authInitialized' = TRUE
  /\ init' = [IdleInit EXCEPT !.caught = caught]

\* lines 604-610: the finally block of initAuth; the run is over
InitFinally(caught) ==
  /\ isLoading' = FALSE
  /\ authInitializing' = FALSE
  /\ authInitialized' = TRUE
  /\ init' = [IdleInit EXCEPT !.caught = caught]

\* initAuth without the reentrancy test of lines 428-431
initAuth_noReentrancyGuard(closureInitialized) ==
  /\ initTick' = ~initTick
  /\ IF authInitialized /\ closureInitialized
     THEN UNCHANGED <<authInitializing, isLoading, init>>
     ELSE /\ authInitializing' = TRUE
          /\ isLoading' = TRUE
          /\ init' = [pc |-> "fetch", retryCount |-> 0, newSession |-> None,
                            lateGet |-> "none", caught |-> "none"]

\* lines 426-461: an invocation of initAuth from a render whose
\* authState.initialized was closureInitialized, up to its first await
initAuth(closureInitialized) ==
  /\ initTick' = ~initTick
  /\ IF authInitializing \/ (authInitialized /\ closureInitialized)
     THEN UNCHANGED <<authInitializing, isLoading, init>>
     ELSE /\ authInitializing' = TRUE
          /\ isLoading' = TRUE
          /\ init' = [pc |-> "fetch", retryCount |-> 0, newSession |-> None,
                            lateGet |-> "none", caught |-> "none"]

\* a recovery that accepts a cached session of any age
recoverySession_anyAge ==
  IF storage.auth_session # None /\ storage.auth_user # None
  THEN Some(MkSession(storage.auth_session[1].access_token,
                      storage.auth_session[1].refresh_token,
                      storage.auth_session[1].expires_at,
                      Some([id |-> storage.auth_user[1].id,
                            email |-> storage.auth_user[1].email]), FALSE))
  ELSE None

\* lines 476-504: the session recovered from localStorage, None if refused
recoverySession ==
  IF storage.auth_session # None /\ storage.auth_user # None
  THEN LET parsedSession == storage.auth_session[1]
           parsedUser == storage.auth_user[1]
           sevenDaysAgo == NowMs - SevenDaysMs
       IN  IF parsedSession.expires_at # 0
              /\ parsedSession.expires_at * 1000 > sevenDaysAgo
           THEN Some(MkSession(parsedSession.access_token,
                               parsedSession.refresh_token,
                               parsedSession.expires_at,
                               Some([id |-> parsedUser.id,
                                     email |-> parsedUser.email]), FALSE))
           ELSE None
  ELSE None

\* What a getSession() call raced against its timer does: it resolves with
\* the provider's session ("ok") or with an error result ("error"), rejects
\* ("reject"), or the timer fires first ("timeout").
FetchOutcomes == {"ok", "error", "reject", "timeout"}

\* The oracles the state machine draws from.  The three lookups of one call
\* behave alike; the probe, the insert and the update behave alike; the
\* Math.random() draws are fixed (every session of the state machine carries
\* an e-mail address, so they are never consulted).  A lookup that times
\* out is retried and classified like one the network rejects, so "rejnet"
\* stands for both.  SpecPS below applies processSession to every oracle.
MainOracles ==
  {[lk |-> [i \in 1..MAX_RETRY_ATTEMPTS |-> l], probe |-> w, ins |-> w,
    upd |-> w, rnd |-> "0", rnd2 |-> "0"] :
     l \in LookupOutcomes \ {"timeout"}, w \in {"ok", "dberr"}}

\* a loop that treats an error result like a failed attempt: it tries again
\* and turns to the cache in the end
InitFetch_retriesOnErrorResult(outcome) ==
  /\ UNCHANGED lsnVars
  /\ init.pc = "fetch"
  /\ UNCHANGED <<envVars, mounted, effectDeps, lg, rg, lo, initTick, ret,
                 calls, ps, guard, wr, sq, bg>>
  /\ LET failed == outcome \in {"reject", "timeout", "error"}
         retryCount == IF failed THEN init.retryCount + 1 ELSE init.retryCount
         newSession == IF outcome = "ok" THEN prov
                       ELSE IF failed /\ retryCount >= maxRetries
                       THEN recoverySession
                       ELSE None
         locals == [init EXCEPT !.retryCount = retryCount,
                                !.newSession = newSession,
                                !.lateGet = IF outcome = "timeout"
                                            THEN "pending" ELSE @]
     IN  /\ IF failed /\ retryCount < maxRetries
            THEN init' = locals /\ UNCHANGED coreVars
            ELSE IF newSession # None
            THEN init' = [locals EXCEPT !.pc = "resolve"] /\ UNCHANGED coreVars
            ELSE /\ updateAuthState(Cleared)
                 /\ InitFinally(IF outcome = "error" THEN "result"
                                ELSE IF failed THEN "exhausted" ELSE "none")

\* lines 454-520 and 587-603: a getSession() attempt ends.  A resolved
\* attempt leaves the loop; a failed one counts, and the last failed one
\* turns to the cache.  Without a session the run publishes the cleared
\* state and ends.
InitFetch(outcome) ==
  /\ UNCHANGED lsnVars
  /\ init.pc = "fetch"
  /\ UNCHANGED <<envVars, mounted, effectDeps, lg, rg, lo, initTick, ret,
                 calls, ps, guard, wr, sq, bg>>
  /\ LET failed == outcome \in {"reject", "timeout"}
         retryCount == IF failed THEN init.retryCount + 1 ELSE init.retryCount
         newSession == IF outcome = "ok" THEN prov
                       ELSE IF failed /\ retryCount >= maxRetries
                       THEN recoverySession
                       ELSE None
         locals == [init EXCEPT !.retryCount = retryCount,
                                !.newSession = newSession,
                                !.lateGet = IF outcome = "timeout"
                                            THEN "pending" ELSE @]
     IN  /\ IF failed /\ retryCount < maxRetries
            THEN init' = locals /\ UNCHANGED coreVars
            ELSE IF newSession # None
            THEN init' = [locals EXCEPT !.pc = "resolve"] /\ UNCHANGED coreVars
            ELSE /\ updateAuthState(Cleared)
                 /\ InitFinally(IF outcome = "error" THEN "result"
                                ELSE IF failed THEN "exhausted" ELSE "none")

\* lines 525-554 and 604-610: processSession resolves before the 5 s timer
\* fires; the run publishes the session with the resolved user and ends
InitResolve(o) ==
  /\ UNCHANGED lsnVars
  /\ init.pc = "resolve"
  /\ UNCHANGED <<prov, mounted, effectDeps, bg, lg, rg, lo, initTick, ret,
                 calls, ps, guard, wr, sq>>
  /\ LET r == processSession(init.newSession, profiles, o)
         fallbackUser == Some(createSessionOnlyUser(init.newSession[1], o.rnd2))
     IN  /\ profiles' = r.store
         /\ updateAuthState([session |-> init.newSession,
                             user |-> IF ~r.thrown /\ r.ret # None THEN r.ret
                                      ELSE fallbackUser,
                             initialized |-> TRUE])
         /\ InitFinally("none")

\* a run that gives up the session when the profile is slow
timeoutState_unauthenticated(newSession) == Cleared

\* lines 555-565: what the run publishes without a resolved user
timeoutState(newSession) ==
  [session |-> newSession,
   user |-> Some(createSessionOnlyUser(newSession[1], "0")),
   initialized |-> TRUE]

\* lines 538-566 and 604-610: the 5 s timer fires first; the run publishes
\* the session with the session-only user and ends, while the processSession
\* call goes on in the background
InitResolveTimeout ==
  /\ UNCHANGED lsnVars
  /\ init.pc = "resolve"
  /\ UNCHANGED <<envVars, mounted, effectDeps, lg, rg, lo, initTick, ret,
                 calls, ps, guard, wr, sq>>
  /\ bg' = init.newSession
  /\ updateAuthState(timeoutState(init.newSession))
  /\ InitFinally("none")

\* a late resolution whose value is published like one that won the race
LateResolve_publishes(o) ==
  /\ UNCHANGED lsnVars
  /\ bg # None
  /\ bg' = None
  /\ profiles' = processSession(bg, profiles, o).store
  /\ updateAuthState([session |-> bg,
                      user |-> processSession(bg, profiles, o).ret,
                      initialized |-> TRUE])
  /\ UNCHANGED <<isLoading, authInitializing, authInitialized, prov, mounted,
                 effectDeps, init, lg, rg, lo, initTick, ret, calls, ps,
                 guard, wr, sq>>

\* lines 537-541: the processSession call that lost the race ends; its value
\* is dropped, its writes to the profile store have happened
LateResolve(o) ==
  /\ UNCHANGED lsnVars
  /\ bg # None
  /\ bg' = None
  /\ profiles' = processSession(bg, profiles, o).store
  /\ UNCHANGED <<coreVars, prov, mounted, effectDeps, init, lg, rg, lo,
                 initTick, ret, calls, ps, guard, wr, sq>>

\* lines 459-462: the getSession() calls that lost their race against the
\* timer resolve or reject; nothing but the race was waiting for them
LateFetch ==
  /\ init.lateGet = "pending"
  /\ init' = [init EXCEPT !.lateGet = "settled"]
  /\ UNCHANGED <<coreVars, envVars, mounted, effectDeps, bg, lg, rg, lo,
                 initTick, ret, calls, ps, lsnVars, guard, wr, sq>>

\* lines 739-771: the restoration from localStorage at the top of the main
\* effect
restoreFromStorage ==
  IF /\ storage.auth_user # None
     /\ storage.auth_session # None
     /\ storage.auth_session[1].expires_at # 0
     /\ storage.auth_session[1].expires_at * 1000 > NowMs
  THEN updateAuthState(
         [user |-> storage.auth_user,
          session |-> Some(MkSession(storage.auth_session[1].access_token,
                                     storage.auth_session[1].refresh_token,
                                     storage.auth_session[1].expires_at,
                                     None, FALSE))])
  ELSE UNCHANGED <<authState, storage>>

\* a cleanup function that forgets to unsubscribe
listenerCleanup_keepsSubscription(has, flag, n) ==
  [flag |-> IF has THEN FALSE ELSE flag, subs |-> n]

\* lines 730-735 and 781-784: the effect's cleanup; it calls the function
\* setupAuthListener returned, if it returned one
listenerCleanup(has, flag, n) ==
  IF has THEN [flag |-> FALSE, subs |-> n - 1]
  ELSE [flag |-> flag, subs |-> n]

\* lines 614-620 and 728-735: setupAuthListener with the ref at `flag` and n
\* active subscriptions
setupAuthListener(flag, n) ==
  IF flag THEN [flag |-> flag, subs |-> n, cleanup |-> FALSE]
  ELSE [flag |-> TRUE, subs |-> n + 1, cleanup |-> TRUE]

\* lines 739-785: the main effect runs after the first render
Mount ==
  /\ ~mounted
  /\ mounted' = TRUE
  /\ restoreFromStorage
  /\ initAuth(authState.initialized)
  /\ effectDeps' = authState.initialized
  /\ LET l == setupAuthListener(sessionListenerSet, subs)
     IN  /\ sessionListenerSet' = l.flag
         /\ subs' = l.subs
         /\ cleanup' = l.cleanup
  /\ UNCHANGED <<authInitialized, envVars, lg, rg, lo, ret, calls, ps, guard, wr, sq, bg,
                 ev, hret, unmounted>>

\* lines 739-785: the main effect runs again after a render that changed
\* initAuth (its dependency authState.initialized changed): the cleanup of
\* the previous run, then the effect
EffectRerun ==
  /\ mounted
  /\ ~unmounted
  /\ effectDeps # authState.initialized
  /\ effectDeps' = authState.initialized
  /\ restoreFromStorage
  /\ initAuth(authState.initialized)
  /\ LET c == listenerCleanup(cleanup, sessionListenerSet, subs)
         l == setupAuthListener(c.flag, c.subs)
     IN  /\ sessionListenerSet' = l.flag
         /\ subs' = l.subs
         /\ cleanup' = l.cleanup
  /\ UNCHANGED <<authInitialized, envVars, mounted, lg, rg, lo, ret, calls,
                 ps, guard, wr, sq, bg, ev, hret, unmounted>>

\* lines 781-784: AuthProvider is unmounted; the effect's cleanup runs.
\* Calls in flight go on; authState stays the state their updaters compute.
Unmount ==
  /\ mounted
  /\ ~unmounted
  /\ calls < MaxCalls
  /\ calls' = calls + 1
  /\ unmounted' = TRUE
  /\ LET c == listenerCleanup(cleanup, sessionListenerSet, subs)
     IN  /\ sessionListenerSet' = c.flag
         /\ subs' = c.subs
         /\ cleanup' = FALSE
  /\ UNCHANGED <<coreVars, envVars, mounted, effectDeps, init, bg, lg, rg, lo,
                 initTick, ret, ps, guard, wr, sq, ev, hret>>

\* ------------------------------------------------------- Event Listener
IdleEvent == [pc |-> "idle", event |-> "none", session |-> None]
AuthEvents == {"SIGNED_IN", "SIGNED_OUT", "TOKEN_REFRESHED", "USER_UPDATED"}
\* what supabase.auth.getUser() does: a user, an error result, a result
\* without a user, or a rejection
GetUserOutcomes == {"ok", "error", "nouser", "reject"}

NoHandler == [n |-> 0, event |-> "none", via |-> "none", thrown |-> FALSE]

\* the handler of onAuthStateChange returns (thrown = FALSE) or rejects;
\* event is the event it handled and via the answer of the call it awaited
\* ("sync" if it awaited none)
HandlerEnds(event, via, thrown) ==
  /\ hret' = [n |-> hret.n + 1, event |-> event, via |-> via,
              thrown |-> thrown]
  /\ ev' = IdleEvent

\* the newSession argument of an event: none, the session of an account, or
\* a session that carries no user
EventSessions ==
  {None, Some(ProviderSession("u1")),
   Some([ProviderSession("u1") EXCEPT !.user = None])}

\* lines 620-726: the provider delivers an event to the subscribed handler,
\* which runs up to its first await
AuthEvent(event, newSession) ==
  /\ subs > 0
  /\ ev.pc = "idle"
  /\ calls < MaxCalls
  /\ calls' = calls + 1
  /\ UNCHANGED <<authInitializing, authInitialized, isLoading, envVars,
                 mounted, effectDeps, init, bg, lg, rg, lo, initTick, ret, ps, guard, wr, sq,
                 sessionListenerSet, subs, unmounted, cleanup>>
  /\ CASE event = "SIGNED_IN" /\ newSession # None ->
            /\ ev' = [pc |-> "process", event |-> event, session |-> newSession]
            /\ UNCHANGED <<authState, storage, hret>>
       [] event = "SIGNED_OUT" ->
            updateAuthState(Cleared) /\ HandlerEnds(event, "sync", FALSE)
       [] event = "TOKEN_REFRESHED" /\ newSession # None
             /\ newSession[1].user # None ->
            /\ ev' = [pc |-> "getuser", event |-> event, session |-> newSession]
            /\ UNCHANGED <<authState, storage, hret>>
       [] event = "USER_UPDATED" /\ newSession # None
             /\ newSession[1].user # None ->
            /\ ev' = [pc |-> "process", event |-> event, session |-> newSession]
            /\ UNCHANGED <<authState, storage, hret>>
       [] OTHER ->
            HandlerEnds(event, "sync", FALSE) /\ UNCHANGED <<authState, storage>>

\* lines 632-660 and 708-718: processSession ends in the SIGNED_IN or the
\* USER_UPDATED branch.  For a SIGNED_IN session without a user
\* processSession resolves with null, createSessionOnlyUser throws on
\* session.user.id at line 647 and again at line 659 in the catch, and the
\* handler rejects without an update.
EventResolve(o) ==
  /\ ev.pc = "process"
  /\ UNCHANGED <<authInitializing, authInitialized, isLoading, prov,
                 procVars, ps, guard, wr, sq, sessionListenerSet, subs, unmounted, cleanup>>
  /\ LET r == processSession(ev.session, profiles, o)
         fallbackUser == Some(createSessionOnlyUser(ev.session[1], o.rnd2))
         noUser == ev.session[1].user = None
     IN  /\ profiles' = r.store
         /\ IF ev.event = "SIGNED_IN" /\ noUser
            THEN UNCHANGED <<authState, storage>>
            ELSE IF ev.event = "SIGNED_IN"
            THEN updateAuthState([session |-> ev.session,
                                  user |-> IF ~r.thrown /\ r.ret # None
                                           THEN r.ret ELSE fallbackUser,
                                  initialized |-> TRUE])
            ELSE IF r.ret # None
            THEN updateAuthState([session |-> ev.session, user |-> r.ret,
                                  initialized |-> TRUE])
            ELSE UNCHANGED <<authState, storage>>
         /\ HandlerEnds(ev.event, "process",
                        \/ ev.event = "USER_UPDATED" /\ r.thrown
                        \/ ev.event = "SIGNED_IN" /\ noUser)

\* a test that only looks at the error
userInvalid_errorOnly(outcome) == outcome = "error"

\* line 687: stillValid.error || !stillValid.data.user
userInvalid(outcome) == outcome \in {"error", "nouser"}

\* a refresh that publishes the session without the user it had
EventGetUser_dropsUser(outcome) ==
  /\ ev.pc = "getuser"
  /\ UNCHANGED <<authInitializing, authInitialized, isLoading, envVars,
                 procVars, ps, guard, wr, sq, sessionListenerSet, subs, unmounted, cleanup>>
  /\ CASE outcome = "reject" ->
            /\ HandlerEnds(ev.event, outcome, TRUE)
            /\ UNCHANGED <<authState, storage>>
       [] outcome # "reject" /\ userInvalid(outcome) ->
            updateAuthState(Cleared) /\ HandlerEnds(ev.event, outcome, FALSE)
       [] OTHER ->
            /\ updateAuthState([session |-> ev.session, user |-> None,
                                initialized |-> TRUE])
            /\ HandlerEnds(ev.event, outcome, FALSE)

\* lines 685-702: getUser() ends in the TOKEN_REFRESHED branch; nothing
\* catches its rejection
EventGetUser(outcome) ==
  /\ ev.pc = "getuser"
  /\ UNCHANGED <<authInitializing, authInitialized, isLoading, envVars,
                 procVars, ps, guard, wr, sq, sessionListenerSet, subs, unmounted, cleanup>>
  /\ CASE outcome = "reject" ->
            /\ HandlerEnds(ev.event, outcome, TRUE)
            /\ UNCHANGED <<authState, storage>>
       [] outcome # "reject" /\ userInvalid(outcome) ->
            updateAuthState(Cleared) /\ HandlerEnds(ev.event, outcome, FALSE)
       [] OTHER ->
            /\ updateAuthState([session |-> ev.session, initialized |-> TRUE])
            /\ HandlerEnds(ev.event, outcome, FALSE)

\* lines 788-791: refreshAuth, called through a callback that was created by
\* the latest render or by the first one (a caller holding on to it)
refreshAuth(closureInitialized) ==
  /\ UNCHANGED lsnVars
  /\ mounted
  /\ ~unmounted
  /\ calls < MaxCalls
  /\ calls' = calls + 1
  /\ initAuth(closureInitialized)
  /\ UNCHANGED <<authState, storage, authInitialized, envVars, mounted,
                 effectDeps, lg, rg, lo, ret, ps, guard, wr, sq, bg>>

\* ----------------------------------------------------------- public API
IdleCall == [pc |-> "idle", session |-> None]
\* the value a public call returned: {user} or {error: msg}; storeDown says
\* whether every profile store request the call made failed
MkRet(op, kind, user, msg, storeDown) ==
  [op |-> op, kind |-> kind, user |-> user, msg |-> msg,
   storeDown |-> storeDown, provider |-> "none", providerMsg |-> ""]
\* the same, with what the provider's call answered: an error result or a
\* rejection, and its message
MkRetP(op, kind, user, msg, outcome, providerMsg) ==
  [MkRet(op, kind, user, msg, FALSE) EXCEPT !.provider = outcome,
                                            !.providerMsg = providerMsg]
NoRet == MkRet("none", "none", None, "", FALSE)

\* messages of the provider's credential errors ('' is an empty message)
ErrorMessages == {"Invalid login credentials", ""}
\* a || b on messages
MsgOr(a, b) == IF a # "" THEN a ELSE b

\* every request of the oracle fails
AllFail(o) ==
  /\ \A i \in DOMAIN o.lk : o.lk[i] # "ok"
  /\ o.probe # "ok" /\ o.ins # "ok" /\ o.upd # "ok"

\* lines 794-813: login(identifier, password) up to signInWithPassword
login(id) ==
  /\ UNCHANGED lsnVars
  /\ mounted
  /\ ~unmounted
  /\ calls < MaxCalls
  /\ calls' = calls + 1
  /\ lg.pc = "idle"
  /\ isLoading' = TRUE
  /\ IF authState.user # None
     THEN updateAuthState([user |-> None, session |-> None])
     ELSE UNCHANGED <<authState, storage>>
  /\ lg' = [pc |-> "signin", session |-> Some(ProviderSession(id))]
  /\ UNCHANGED <<authInitializing, authInitialized, envVars, mounted,
                 effectDeps, init, rg, lo, initTick, ret, ps, guard, wr, sq, bg>>

\* an error message that hides the provider's
loginErrorMessage_generic(msg) == "Login failed"

\* line 822: signInError.message || "Login failed"
loginErrorMessage(msg) == MsgOr(msg, "Login failed")

\* lines 810-827 and 873-878: signInWithPassword ends
LoginSignIn(outcome, msg) ==
  /\ UNCHANGED lsnVars
  /\ lg.pc = "signin"
  /\ UNCHANGED <<authState, storage, authInitializing, authInitialized,
                 profiles, mounted, effectDeps, init, rg, lo, initTick,
                 calls, ps, guard, wr, sq, bg>>
  /\ CASE outcome = "ok" ->
            /\ prov' = lg.session
            /\ lg' = [lg EXCEPT !.pc = "resolve"]
            /\ UNCHANGED <<isLoading, ret>>
       [] outcome = "error" ->
            /\ ret' = MkRetP("login", "error", None,
                             loginErrorMessage(msg), outcome, msg)
            /\ isLoading' = FALSE
            /\ lg' = IdleCall
            /\ UNCHANGED prov
       [] OTHER ->
            /\ ret' = MkRetP("login", "error", None,
                             MsgOr(msg, "Login failed due to an unexpected error"),
                             "reject", msg)
            /\ isLoading' = FALSE
            /\ lg' = IdleCall
            /\ UNCHANGED prov

\* lines 829-878: processSession ends, login publishes and returns
LoginResolve(o) ==
  /\ UNCHANGED lsnVars
  /\ lg.pc = "resolve"
  /\ UNCHANGED <<authInitializing, authInitialized, prov, mounted,
                 effectDeps, init, rg, lo, initTick, calls, ps, guard, wr, sq, bg>>
  /\ LET r == processSession(lg.session, profiles, o)
         fallbackUser == Some(createSessionOnlyUser(lg.session[1], o.rnd2))
         userData == IF ~r.thrown /\ r.ret # None THEN r.ret ELSE fallbackUser
     IN  /\ profiles' = r.store
         /\ updateAuthState([user |-> userData, session |-> lg.session,
                             initialized |-> TRUE])
         /\ ret' = MkRet("login", "user", userData, "", AllFail(o))
  /\ isLoading' = FALSE
  /\ lg' = IdleCall

\* a || b on optional names
NameOr(a, b) == IF a \in {"null", "undefined", ""} THEN b ELSE a

\* lines 882-904: register(username, email, password) up to signUp
register(id) ==
  /\ UNCHANGED lsnVars
  /\ mounted
  /\ ~unmounted
  /\ calls < MaxCalls
  /\ calls' = calls + 1
  /\ rg.pc = "idle"
  /\ isLoading' = TRUE
  /\ rg' = [pc |-> "signup", session |-> None]
  /\ UNCHANGED <<authState, storage, authInitializing, authInitialized,
                 envVars, mounted, effectDeps, init, lg, lo, initTick, ret,
                 ps, guard, wr, sq, bg>>

RegisterError(msg) ==
  /\ ret' = MkRet("register", "error", None, msg, FALSE)
  /\ isLoading' = FALSE
  /\ rg' = IdleCall

\* lines 894-912 and 938-943: signUp ends; the provider opens a session at
\* once (withSession) or waits for the e-mail confirmation
RegisterSignUp(id, outcome, msg, withSession) ==
  /\ UNCHANGED lsnVars
  /\ rg.pc = "signup"
  /\ UNCHANGED <<authState, storage, authInitializing, authInitialized,
                 profiles, mounted, effectDeps, init, lg, lo, initTick,
                 calls, ps, guard, wr, sq, bg>>
  /\ CASE outcome = "ok" ->
            /\ prov' = IF withSession THEN Some(ProviderSession(id)) ELSE prov
            /\ rg' = [pc |-> "insert",
                      session |-> IF withSession THEN Some(ProviderSession(id))
                                  ELSE None]
            /\ UNCHANGED <<isLoading, ret>>
       [] outcome = "error" ->
            RegisterError(MsgOr(msg, "Registration failed")) /\ UNCHANGED prov
       [] OTHER ->
            /\ RegisterError(MsgOr(msg, "Registration failed due to an unexpected error"))
            /\ UNCHANGED prov

\* lines 217-236 and 915-919: the insert of createProfileIfMissing ends
RegisterInsert(id, email, outcome) ==
  /\ UNCHANGED lsnVars
  /\ rg.pc = "insert"
  /\ UNCHANGED <<authState, storage, authInitializing, authInitialized,
                 prov, mounted, effectDeps, init, lg, lo, initTick, calls,
                 ps, guard, wr, sq, bg>>
  /\ LET minimalProfile == MkRow(id, LocalPart(email), email, "null", "null")
         ins == IF outcome = "ok" THEN InsertRow(profiles, minimalProfile)
                ELSE [store |-> profiles, data |-> None, code |-> "500"]
     IN  /\ profiles' = ins.store
         /\ IF ins.code = ""
            THEN /\ rg' = [rg EXCEPT !.pc = "refetch"]
                 /\ UNCHANGED <<isLoading, ret>>
            ELSE RegisterError("Failed to create user profile")

\* lines 192-214, 238-239 and 915-943: getProfileForUser ends, register
\* publishes and returns
RegisterRefetch(id, username, email, outcome) ==
  /\ UNCHANGED lsnVars
  /\ rg.pc = "refetch"
  /\ UNCHANGED <<authInitializing, authInitialized, envVars, mounted,
                 effectDeps, init, lg, lo, initTick, calls, ps, guard, wr, sq, bg>>
  /\ LET res == LookupAttempt(outcome, profiles, id)
         profile == IF ~res.thrown /\ res.res[1].code = ""
                    THEN res.res[1].data ELSE None
     IN  IF profile = None
         THEN RegisterError("Failed to create user profile")
              /\ UNCHANGED <<authState, storage>>
         ELSE LET userData ==
                    Some(MkUser(profile[1].id,
                                OrElse(profile[1].username, username),
                                OrElse(profile[1].email, email),
                                NameOr(profile[1].first_name, "undefined"),
                                NameOr(profile[1].last_name, "undefined")))
              IN  /\ updateAuthState([user |-> userData, session |-> rg.session,
                                      initialized |-> TRUE])
                  /\ ret' = MkRet("register", "user", userData, "", FALSE)
                  /\ isLoading' = FALSE
                  /\ rg' = IdleCall

\* lines 947-965: logout() up to signOut
logout ==
  /\ UNCHANGED lsnVars
  /\ mounted
  /\ ~unmounted
  /\ calls < MaxCalls
  /\ calls' = calls + 1
  /\ lo.pc = "idle"
  /\ isLoading' = TRUE
  /\ updateAuthState(Cleared)
  /\ lo' = [pc |-> "signout", session |-> None]
  /\ UNCHANGED <<authInitializing, authInitialized, envVars, mounted,
                 effectDeps, init, lg, rg, initTick, ret, ps, guard, wr, sq, bg>>

\* lines 965-985: signOut resolves (the provider drops its session) or
\* rejects (it keeps it)
LogoutSignOut(outcome) ==
  /\ UNCHANGED lsnVars
  /\ lo.pc = "signout"
  /\ prov' = IF outcome = "ok" THEN None ELSE prov
  /\ isLoading' = FALSE
  /\ lo' = IdleCall
  /\ ret' = MkRet("logout", "void", None, "", FALSE)
  /\ UNCHANGED <<authState, storage, authInitializing, authInitialized,
                 profiles, mounted, effectDeps, init, lg, rg, initTick,
                 calls, ps, guard, wr, sq, bg>>

\* --------------------------------------------------------------- AuthGuard
\* AuthGuard (src/unnamed/part_014, lines 49-335) reads user, isLoading and
\* isInitialized from the context.  The variable guard holds one AuthGuard:
\*   ctx     the context values now; seen: the values of context and state at
\*           the last render (rendered says whether there was one)
\*   st      useState: guardState, redirectAttempts, authChecks
\*   recoveryAttempted, networkErrorDetected   the refs
\*   late    Date.now() - loadingStartTime: 0 up to 7 s, 1 up to 12 s, 2 beyond
\*   stuck, loadT, lastResort   the pending timers (8 s, 4 s, 5 s)
\*   shown   what the last render returned
\*   gone    the guard is unmounted (navigation away, or page reload)
GuardCtx == [user : BOOLEAN, isLoading : BOOLEAN, isInitialized : BOOLEAN]
NoTimer == [set |-> FALSE, user |-> FALSE, isInitialized |-> FALSE]

GuardInit(ctx) ==
  [ctx |-> ctx,
   st |-> [guardState |-> "checking", redirectAttempts |-> 0, authChecks |-> 0],
   seen |-> [ctx |-> ctx,
             st |-> [guardState |-> "checking", redirectAttempts |-> 0,
                     authChecks |-> 0]],
   rendered |-> FALSE, recoveryAttempted |-> FALSE,
   networkErrorDetected |-> FALSE, late |-> 0,
   stuck |-> NoTimer, loadT |-> FALSE, lastResort |-> FALSE,
   shown |-> "none", gone |-> FALSE]

\* lines 267-334: what a render returns
guardOutput(ctx, st) ==
  IF st.guardState = "network_error" THEN "network_error"
  ELSE IF st.guardState = "checking" \/ (ctx.isLoading /\ ~ctx.user)
  THEN "loading"
  ELSE IF st.guardState = "authenticated" \/ st.redirectAttempts > 3
  THEN "children"
  ELSE "null"

\* lines 206-265: checkAuth of the main effect, on the rendered values; it
\* yields the state updates, the ref and whether navigate() was called
checkAuth(ctx, st, networkErrorDetected, recoveryAttempted, late) ==
  LET same == [st |-> st, recoveryAttempted |-> recoveryAttempted,
               navigated |-> FALSE]
  IN  IF networkErrorDetected /\ st.guardState = "checking"
      THEN [same EXCEPT !.st.guardState = "network_error"]
      ELSE IF ~ctx.isInitialized /\ ctx.user
              /\ (st.authChecks > 0 \/ late >= 1)
      THEN [same EXCEPT !.st.guardState = "authenticated"]
      ELSE IF ~ctx.isInitialized /\ ~ctx.user
      THEN [same EXCEPT !.st.guardState = "checking"]
      ELSE IF ctx.user
      THEN [st |-> [st EXCEPT !.guardState = "authenticated",
                              !.redirectAttempts = 0],
            recoveryAttempted |-> FALSE, navigated |-> FALSE]
      ELSE [st |-> [st EXCEPT !.guardState = "unauthorized",
                              !.redirectAttempts = st.redirectAttempts + 1],
            recoveryAttempted |-> recoveryAttempted,
            navigated |-> st.redirectAttempts <= 3]

\* lines 66-265 and 267-334: a render with new values of context or state,
\* followed by the effects whose dependencies changed (all at the first
\* render).  navigate() takes the browser to the fallback route and the page
\* reload of line 105 leaves the page: either way the guard is unmounted.
GuardRender ==
  /\ ~guard.gone
  /\ ~guard.rendered \/ guard.seen # [ctx |-> guard.ctx, st |-> guard.st]
  /\ LET ctx == guard.ctx
         st == guard.st
         first == ~guard.rendered
         ch(f) == first \/ guard.seen.ctx[f] # ctx[f]
         chs(f) == first \/ guard.seen.st[f] # st[f]
         refreshCh == ch("isInitialized")
         \* lines 95-109
         reload == chs("redirectAttempts") /\ st.redirectAttempts > 5
         \* lines 112-146
         runRecovery == chs("guardState") \/ refreshCh
         recover == /\ runRecovery /\ st.guardState = "checking"
                    /\ guard.late = 2 /\ ~guard.recoveryAttempted
         lastResort == IF runRecovery THEN recover ELSE guard.lastResort
         recovery1 == guard.recoveryAttempted \/ recover
         \* lines 149-185
         runStuck == ch("isLoading") \/ chs("guardState") \/ refreshCh
                     \/ ch("user")
         stuck == IF ~runStuck THEN guard.stuck
                  ELSE IF ctx.isLoading \/ st.guardState = "checking"
                  THEN [set |-> TRUE, user |-> ctx.user,
                        isInitialized |-> ctx.isInitialized]
                  ELSE NoTimer
         \* lines 188-203
         runLoad == ch("isLoading") \/ chs("authChecks") \/ refreshCh
         loadT == IF ~runLoad THEN guard.loadT
                  ELSE ctx.isLoading /\ st.authChecks = 0
         \* lines 206-265
         runMain == \/ ch("user") \/ ch("isLoading") \/ refreshCh
                    \/ chs("guardState") \/ chs("redirectAttempts")
                    \/ chs("authChecks")
         chk == IF runMain
                THEN checkAuth(ctx, st, guard.networkErrorDetected, recovery1,
                               guard.late)
                ELSE [st |-> st, recoveryAttempted |-> recovery1,
                      navigated |-> FALSE]
         leaves == reload \/ chk.navigated
     IN  guard' = [guard EXCEPT
                     !.rendered = TRUE,
                     !.seen = [ctx |-> ctx, st |-> st],
                     !.shown = guardOutput(ctx, st),
                     !.st = chk.st,
                     !.recoveryAttempted = chk.recoveryAttempted,
                     !.stuck = IF leaves THEN NoTimer ELSE stuck,
                     !.loadT = IF leaves THEN FALSE ELSE loadT,
                     !.lastResort = IF leaves THEN FALSE ELSE lastResort,
                     !.gone = leaves]
  /\ UNCHANGED <<coreVars, envVars, procVars, ps, lsnVars, wr, sq>>

\* React has rendered the latest values and run the effects
GuardSettled ==
  /\ ~guard.gone /\ guard.rendered
  /\ guard.seen = [ctx |-> guard.ctx, st |-> guard.st]

\* AuthProvider publishes new values (src/src/hooks/useAuth.tsx); its
\* publications are separated by awaits on the network, so the guard has
\* rendered the previous one.
\* isInitialized never goes back to false; while it is false the user
\* changes only under a loading state (the restoration of lines 742-760
\* precedes initAuth's setIsLoading(true), the clearing of lines 800-807
\* follows login's).
GuardCtxChange(ctx) ==
  /\ GuardSettled
  /\ ctx # guard.ctx
  /\ guard.ctx.isInitialized => ctx.isInitialized
  /\ (~ctx.isInitialized /\ ctx.user # guard.ctx.user) => ctx.isLoading
  /\ guard' = [guard EXCEPT !.ctx = ctx]
  /\ UNCHANGED <<coreVars, envVars, procVars, ps, lsnVars, wr, sq>>

\* time passes 7 s, then 12 s, after loadingStartTime
GuardTick ==
  /\ ~guard.gone
  /\ guard.late < 2
  /\ guard' = [guard EXCEPT !.late = guard.late + 1]
  /\ UNCHANGED <<coreVars, envVars, procVars, ps, lsnVars, wr, sq>>

\* lines 67-74: the online handler registered by the last render
GuardOnline ==
  /\ ~guard.gone /\ guard.rendered
  /\ guard' = [guard EXCEPT
                 !.networkErrorDetected = FALSE,
                 !.st.guardState =
                    IF guard.seen.st.guardState = "network_error"
                    THEN "checking" ELSE guard.st.guardState]
  /\ UNCHANGED <<coreVars, envVars, procVars, ps, lsnVars, wr, sq>>

\* lines 76-83: the offline handler registered by the last render
GuardOffline ==
  /\ ~guard.gone /\ guard.rendered
  /\ guard' = [guard EXCEPT
                 !.networkErrorDetected = TRUE,
                 !.st.guardState =
                    IF guard.seen.st.guardState = "checking"
                    THEN "network_error" ELSE guard.st.guardState]
  /\ UNCHANGED <<coreVars, envVars, procVars, ps, lsnVars, wr, sq>>

\* lines 158-179: the 8 s timer fires, with the user and isInitialized of
\* the render that set it
GuardStuckTimer ==
  /\ ~guard.gone /\ guard.stuck.set
  /\ guard' =
       [guard EXCEPT
          !.stuck = NoTimer,
          !.st.guardState =
             IF guard.stuck.user THEN "authenticated"
             ELSE IF guard.stuck.isInitialized THEN "unauthorized"
             ELSE IF guard.networkErrorDetected THEN "network_error"
             ELSE guard.st.guardState,
          !.st.authChecks =
             IF ~guard.stuck.user /\ ~guard.stuck.isInitialized
                /\ ~guard.networkErrorDetected
                /\ guard.st.authChecks < MaxAuthChecks
             THEN guard.st.authChecks + 1 ELSE guard.st.authChecks]
  /\ UNCHANGED <<coreVars, envVars, procVars, ps, lsnVars, wr, sq>>

\* lines 193-197: the 4 s timer fires
GuardLoadingTimer ==
  /\ ~guard.gone /\ guard.loadT
  /\ guard' = [guard EXCEPT
                 !.loadT = FALSE,
                 !.st.authChecks =
                    IF guard.st.authChecks < MaxAuthChecks
                    THEN guard.st.authChecks + 1 ELSE guard.st.authChecks]
  /\ UNCHANGED <<coreVars, envVars, procVars, ps, lsnVars, wr, sq>>

\* lines 124-142: the last-resort timer fires; storedUser says whether
\* localStorage holds auth_user
GuardLastResort(storedUser) ==
  /\ ~guard.gone /\ guard.lastResort
  /\ guard' = [guard EXCEPT
                 !.lastResort = FALSE,
                 !.st.guardState = IF storedUser THEN "authenticated"
                                   ELSE "unauthorized",
                 !.gone = ~storedUser,
                 !.stuck = IF storedUser THEN guard.stuck ELSE NoTimer,
                 !.loadT = storedUser /\ guard.loadT]
  /\ UNCHANGED <<coreVars, envVars, procVars, ps, lsnVars, wr, sq>>

\* lines 283-288: the Try Again button of the network error screen
GuardTryAgain ==
  /\ ~guard.gone /\ guard.shown = "network_error"
  /\ guard' = [guard EXCEPT !.st.guardState = "checking",
                            !.st.authChecks = 0, !.late = 0]
  /\ UNCHANGED <<coreVars, envVars, procVars, ps, lsnVars, wr, sq>>

\* lines 294-296: the Go to Login button of the network error screen
GuardGoToLogin ==
  /\ ~guard.gone /\ guard.shown = "network_error"
  /\ guard' = [guard EXCEPT !.gone = TRUE, !.stuck = NoTimer,
                            !.loadT = FALSE, !.lastResort = FALSE]
  /\ UNCHANGED <<coreVars, envVars, procVars, ps, lsnVars, wr, sq>>

\* ------------------------------------------------- withRetry on its own
\* what one invocation of the operation can do: throw one of two errors or
\* resolve with one of two values
WROutcomes ==
  {Threw(Thrown(TRUE, "e1")), Threw(Thrown(TRUE, "e2")),
   Resolved("v1"), Resolved("v2")}

\* the sequences of MaxAttempts invocation outcomes
RECURSIVE WRSeqs(_)
WRSeqs(n) ==
  IF n = 0 THEN {<<>>}
  ELSE {Append(q, x) : q \in WRSeqs(n - 1), x \in WROutcomes}

NoWR == [outs |-> <<>>, maxAttempts |-> 0, called |-> FALSE,
         out |-> [thrown |-> FALSE, err |-> NoError, res |-> None,
                  attempts |-> 0, waits |-> 0]]

\* ------------------------------------------ useSupabaseQuery on its own
\* lines 1217-1222: the hook before its first render.  data is "null" or the
\* identity of the object held; error is "null", "result" (the error of a
\* response) or "thrown" (what withRetry threw); deps is the data the
\* `execute` of the last effect run was made for ("unset" before the first
\* run); attempts counts the invocations of the last fetch that ended,
\* refetches the calls of refetch, and succeeded says whether a fetch has
\* resolved with data.
NoSQ == [mounted |-> FALSE, data |-> "null", error |-> "null",
         isLoading |-> TRUE, isFetchingRef |-> FALSE, pc |-> "idle",
         deps |-> "unset", refetches |-> 0, succeeded |-> FALSE,
         attempts |-> 0]

\* ------------------------------------------------------- initial states
\* what an earlier run of the application left in localStorage: nothing, or
\* the user and the trimmed session of account u1, the session expiring
\* one hour ahead of now, or having expired 6 or 7 days ago
CachedExpiries ==
  {NowSec + 3600, NowSec - 6 * DaySec, NowSec - 7 * DaySec}
CachedUser == MkUser("u1", StripNonAlnum(LocalPart(Email1)), Email1,
                     "undefined", "undefined")
InitStorages ==
  {[auth_user |-> None, auth_session |-> None]} \cup
  {[auth_user |-> Some(CachedUser),
    auth_session |-> Some(sessionData(
        MkSession("at_u1", "rt_u1", e, None, FALSE)))] : e \in CachedExpiries}

\* the profiles table at the start: account u1 has no row, a full row, or a
\* row without a username; account u2 is not registered yet
EmptyStore == [id \in UserIds |-> None]
InitProfiles ==
  {EmptyStore,
   [EmptyStore EXCEPT !["u1"] = Some(MkRow("u1", RowUsername, Email1, "F", "L"))],
   [EmptyStore EXCEPT !["u1"] = Some(MkRow("u1", <<>>, <<>>, "null", "null"))]}

\* the tables the state machine starts from
MainProfiles ==
  {st \in InitProfiles : st["u1"] = None \/ st["u1"][1].username # <<>>}

NoPS == [session |-> None, store |-> EmptyStore, called |-> FALSE,
         o |-> CHOOSE o \in MainOracles : TRUE,
         out |-> PSRet(None, FALSE, EmptyStore, <<>>)]

NoGuard == GuardInit([user |-> FALSE, isLoading |-> TRUE, isInitialized |-> FALSE])

Init ==
  /\ guard = NoGuard
  /\ sessionListenerSet = FALSE
  /\ subs = 0
  /\ ev = IdleEvent
  /\ hret = NoHandler
  /\ unmounted = FALSE
  /\ cleanup = FALSE
  /\ authState = defaultAuthState
  /\ isLoading = TRUE
  /\ authInitializing = FALSE
  /\ authInitialized = FALSE
  /\ storage \in InitStorages
  /\ profiles \in MainProfiles
  /\ prov \in {None, Some(ProviderSession("u1"))}
  /\ mounted = FALSE
  /\ effectDeps = FALSE
  /\ init = IdleInit
  /\ bg = None
  /\ lg = IdleCall
  /\ rg = IdleCall
  /\ lo = IdleCall
  /\ initTick = FALSE
  /\ ret = NoRet
  /\ calls = 0
  /\ ps = NoPS
  /\ wr = NoWR
  /\ sq = NoSQ

Next ==
  \/ Mount
  \/ EffectRerun
  \/ \E c \in {authState.initialized, FALSE} : refreshAuth(c)
  \/ \E outcome \in FetchOutcomes : InitFetch(outcome)
  \/ \E o \in MainOracles : InitResolve(o)
  \/ InitResolveTimeout
  \/ \E o \in MainOracles : LateResolve(o)
  \/ login("u1")
  \/ \E outcome \in {"ok", "error", "reject"}, msg \in ErrorMessages :
        LoginSignIn(outcome, msg)
  \/ \E o \in MainOracles : LoginResolve(o)
  \/ register("u2")
  \/ \E outcome \in {"ok", "error", "reject"}, msg \in ErrorMessages,
        withSession \in BOOLEAN : RegisterSignUp("u2", outcome, msg, withSession)
  \/ \E outcome \in InsertOutcomes : RegisterInsert("u2", Email2, outcome)
  \/ \E outcome \in {"ok", "dberr", "rejnet", "rejother"} :
        RegisterRefetch("u2", UsernameArg, Email2, outcome)
  \/ logout
  \/ \E outcome \in {"ok", "reject"} : LogoutSignOut(outcome)
  \/ Unmount
  \/ \E event \in AuthEvents, newSession \in EventSessions :
        AuthEvent(event, newSession)
  \/ \E o \in MainOracles : EventResolve(o)
  \/ \E outcome \in GetUserOutcomes : EventGetUser(outcome)
  \/ LateFetch

Spec == Init /\ [][Next]_vars

\* --------------------------------------- processSession as a function
\* the sessions processSession is applied to: none, one without a user
\* record, those of the accounts, and one whose user has no e-mail address
PSSessions ==
  {None, Some(MkSession("at", "rt", NowSec + 3600, None, FALSE)),
   Some(ProviderSession("u1")), Some(ProviderSession("u2")),
   Some(MkSession("at", "rt", NowSec + 3600,
                  Some([id |-> "u1", email |-> <<>>]), TRUE))}

InitPS ==
  /\ guard = NoGuard
  /\ sessionListenerSet = FALSE
  /\ subs = 0
  /\ ev = IdleEvent
  /\ hret = NoHandler
  /\ unmounted = FALSE
  /\ cleanup = FALSE
  /\ authState = defaultAuthState
  /\ isLoading = TRUE
  /\ authInitializing = FALSE
  /\ authInitialized = FALSE
  /\ storage = [auth_user |-> None, auth_session |-> None]
  /\ profiles = EmptyStore
  /\ prov = None
  /\ mounted = FALSE
  /\ effectDeps = FALSE
  /\ init = IdleInit
  /\ bg = None
  /\ lg = IdleCall
  /\ rg = IdleCall
  /\ lo = IdleCall
  /\ initTick = FALSE
  /\ ret = NoRet
  /\ calls = 0
  /\ wr = NoWR
  /\ sq = NoSQ
  /\ ps \in {[NoPS EXCEPT !.session = s, !.store = st, !.o = o] :
               s \in PSSessions, st \in InitProfiles, o \in Oracles}

\* lines 247-423: one call of processSession on the drawn inputs
PSCall ==
  /\ UNCHANGED <<lsnVars, guard, wr, sq>>
  /\ ~ps.called
  /\ ps' = [ps EXCEPT !.called = TRUE,
                      !.out = processSession(ps.session, ps.store, ps.o)]
  /\ UNCHANGED <<coreVars, envVars, procVars>>

SpecPS == InitPS /\ [][PSCall]_vars

\* ------------------------------------------------- AuthGuard on its own
\* an AuthGuard mounted under a provider in any state
InitGuard ==
  /\ authState = defaultAuthState
  /\ isLoading = TRUE
  /\ authInitializing = FALSE
  /\ authInitialized = FALSE
  /\ storage = [auth_user |-> None, auth_session |-> None]
  /\ profiles = EmptyStore
  /\ prov = None
  /\ mounted = FALSE
  /\ effectDeps = FALSE
  /\ init = IdleInit
  /\ bg = None
  /\ lg = IdleCall
  /\ rg = IdleCall
  /\ lo = IdleCall
  /\ initTick = FALSE
  /\ ret = NoRet
  /\ calls = 0
  /\ ps = NoPS
  /\ wr = NoWR
  /\ sq = NoSQ
  /\ sessionListenerSet = FALSE
  /\ subs = 0
  /\ ev = IdleEvent
  /\ hret = NoHandler
  /\ unmounted = FALSE
  /\ cleanup = FALSE
  /\ guard \in {GuardInit(ctx) : ctx \in GuardCtx}

NextGuard ==
  \/ GuardRender
  \/ \E ctx \in GuardCtx : GuardCtxChange(ctx)
  \/ GuardTick
  \/ GuardOnline
  \/ GuardOffline
  \/ GuardStuckTimer
  \/ GuardLoadingTimer
  \/ \E storedUser \in BOOLEAN : GuardLastResort(storedUser)
  \/ GuardTryAgain
  \/ GuardGoToLogin

SpecGuard == InitGuard /\ [][NextGuard]_vars

\* ------------------------------------------------- withRetry on its own
\* the provider, the guard and the other calls at rest
AtRest ==
  /\ authState = defaultAuthState
  /\ isLoading = TRUE
  /\ authInitializing = FALSE
  /\ authInitialized = FALSE
  /\ storage = [auth_user |-> None, auth_session |-> None]
  /\ profiles = EmptyStore
  /\ prov = None
  /\ mounted = FALSE
  /\ effectDeps = FALSE
  /\ init = IdleInit
  /\ bg = None
  /\ lg = IdleCall
  /\ rg = IdleCall
  /\ lo = IdleCall
  /\ initTick = FALSE
  /\ ret = NoRet
  /\ calls = 0
  /\ sessionListenerSet = FALSE
  /\ subs = 0
  /\ ev = IdleEvent
  /\ hret = NoHandler
  /\ unmounted = FALSE
  /\ cleanup = FALSE

InitWR ==
  /\ AtRest
  /\ ps = NoPS
  /\ guard = NoGuard
  /\ sq = NoSQ
  /\ wr \in {[NoWR EXCEPT !.outs = outs, !.maxAttempts = n] :
               outs \in WRSeqs(MaxAttempts), n \in 1..MaxAttempts}

\* lines 102-129: one call of withRetry on the drawn inputs
WRCall ==
  /\ ~wr.called
  /\ wr' = [wr EXCEPT !.called = TRUE,
                      !.out = withRetry(wr.outs, wr.maxAttempts)]
  /\ UNCHANGED <<coreVars, envVars, procVars, ps, lsnVars, guard, sq>>

SpecWR == InitWR /\ [][WRCall]_vars

\* ------------------------------------------ useSupabaseQuery on its own
\* the identities of the objects a response can carry as data: each response
\* is a new object, so three identities let a new one differ from the one
\* held and from the one the last effect run saw
DataIds == {"d1", "d2", "d3"}

\* lines 1243-1253: what one invocation of the query raced against the 15 s
\* timer can do: resolve with rows, with data = null, or with an error
\* result; reject; or lose against the timer
SQOutcomes ==
  {Resolved("rows"), Resolved("nodata"), Resolved("error"),
   Threw(Thrown(TRUE, "Failed to fetch")),
   Threw(Thrown(TRUE, "Query timeout exceeded"))}

\* the sequences of n invocation outcomes
RECURSIVE SQSeqs(_)
SQSeqs(n) ==
  IF n = 0 THEN {<<>>}
  ELSE {Append(q, x) : q \in SQSeqs(n - 1), x \in SQOutcomes}

\* lines 1224-1233: execute() up to its await; a call made while a fetch is
\* in progress returns at once
execute(s) ==
  IF s.isFetchingRef THEN s
  ELSE [s EXCEPT !.isLoading = TRUE, !.isFetchingRef = TRUE,
                 !.pc = "fetching"]

InitSQ ==
  /\ AtRest
  /\ ps = NoPS
  /\ guard = NoGuard
  /\ wr = NoWR
  /\ sq = NoSQ

\* lines 1216-1222 and 1276: the first render of a component using the hook
SQMount ==
  /\ ~sq.mounted
  /\ sq' = [sq EXCEPT !.mounted = TRUE]
  /\ UNCHANGED <<coreVars, envVars, procVars, ps, lsnVars, guard, wr>>

\* lines 1224 and 1270-1274: `execute` is made anew whenever data is another
\* value than at the render before (useCallback with [data]); the effect
\* runs after the first render and after every render that made a new
\* `execute`, and calls it
SQEffect ==
  /\ sq.mounted
  /\ sq.deps # sq.data
  /\ sq' = execute([sq EXCEPT !.deps = sq.data])
  /\ UNCHANGED <<coreVars, envVars, procVars, ps, lsnVars, guard, wr>>

\* line 1276: the component calls refetch, the `execute` of its last render
SQRefetch ==
  /\ sq.mounted
  /\ sq.refetches < MaxRefetch
  /\ sq' = execute([sq EXCEPT !.refetches = @ + 1])
  /\ UNCHANGED <<coreVars, envVars, procVars, ps, lsnVars, guard, wr>>

\* lines 1243-1269: withRetry settles.  An error result sets error and
\* returns; a response sets data to response.data and clears error; what
\* withRetry throws sets error; the finally block ends the fetch.
SQFetchEnds(outs) ==
  /\ sq.pc = "fetching"
  /\ LET response == withRetry(outs, MAX_RETRY_ATTEMPTS)
         newObject == CHOOSE d \in DataIds : d # sq.data /\ d # sq.deps
         done == [sq EXCEPT !.isLoading = FALSE, !.isFetchingRef = FALSE,
                            !.pc = "idle", !.attempts = response.attempts]
     IN  sq' = IF response.thrown
               THEN [done EXCEPT !.error = "thrown"]
               ELSE IF response.res[1] = "error"
               THEN [done EXCEPT !.error = "result"]
               ELSE IF response.res[1] = "nodata"
               THEN [done EXCEPT !.data = "null", !.error = "null"]
               ELSE [done EXCEPT !.data = newObject, !.error = "null",
                                 !.succeeded = TRUE]
  /\ UNCHANGED <<coreVars, envVars, procVars, ps, lsnVars, guard, wr>>

NextSQ ==
  \/ SQMount
  \/ SQEffect
  \/ SQRefetch
  \/ \E outs \in SQSeqs(MAX_RETRY_ATTEMPTS) : SQFetchEnds(outs)

\* React runs a pending effect after the render that scheduled it, and
\* every invocation of the query is raced against the 15 s timer (lines
\* 1245-1249), so a fetch in progress ends.
FairSQ ==
  /\ InitSQ
  /\ [][NextSQ]_vars
  /\ WF_vars(SQEffect)
  /\ WF_vars(\E outs \in SQSeqs(MAX_RETRY_ATTEMPTS) : SQFetchEnds(outs))

\* Every await of initAuth is raced against a timer (lines 459-462 and
\* 538-541), and a timer that is not overtaken fires.
FetchTimerFires == InitFetch("timeout")

FairSpec == Spec /\ WF_vars(FetchTimerFires) /\ WF_vars(InitResolveTimeout)

\* ================================================================ claims

\* the state the restoration at the top of the main effect leaves
RestoredState ==
  IF /\ storage.auth_user # None
     /\ storage.auth_session # None
     /\ storage.auth_session[1].expires_at * 1000 > NowMs
  THEN [authState EXCEPT
          !.user = storage.auth_user,
          !.session = Some(MkSession(storage.auth_session[1].access_token,
                                     storage.auth_session[1].refresh_token,
                                     storage.auth_session[1].expires_at,
                                     None, FALSE))]
  ELSE authState

\* C1: an initAuth() invocation made while an earlier run is in flight
\* returns at once: it issues no getSession() call (the run's position and
\* retry count are untouched), leaves the flags alone and does not change
\* AuthState (in the main effect, the restoration that precedes the
\* invocation is the only write).
C1_ReentrantInitAuthReturnsAtOnce ==
  [][(authInitializing /\ initTick' # initTick) =>
        /\ init' = init
        /\ authInitializing' /\ isLoading' = isLoading
        /\ authInitialized' = authInitialized
        /\ authState' = IF effectDeps' # effectDeps THEN RestoredState
                        ELSE authState]_vars

\* a second invocation has been made while the first run, the one of the
\* mount, is still in flight
C1_Witness ==
  /\ authInitializing /\ ~authInitialized
  /\ init.pc # "idle"
  /\ initTick = FALSE

\* C2: every initAuth run that starts ends, whatever getSession() and the
\* profile store do; the step that ends it leaves initialized = true,
\* isLoading = false and the in-flight flag cleared.
C2_InitAuthTerminates ==
  /\ authInitializing ~> ~authInitializing
  /\ [][(authInitializing /\ ~authInitializing') =>
          /\ authState'.initialized
          /\ ~isLoading'
          /\ authInitialized']_vars

\* the mount's run has ended unauthenticated although the provider holds a
\* session: its session fetch failed
C2_Witness ==
  /\ authInitialized /\ ~authInitializing
  /\ calls = 0
  /\ prov # None
  /\ authState.initialized /\ authState.user = None /\ ~isLoading

\* C3 (as claimed): once logout() has cleared the state, and with no login
\* or register call made, AuthState.user, AuthState.session and the two
\* storage keys stay null while signOut() is pending and after it has ended.
C3_LogoutImmediacy ==
  (calls = 1 /\ (lo.pc = "signout" \/ ret.op = "logout")) =>
     /\ authState.user = None /\ authState.session = None
     /\ storage.auth_user = None /\ storage.auth_session = None

\* C4 (as claimed): when signInWithPassword has succeeded, login() returns
\* {user}; if every profile store request failed, the returned user is the
\* session-only user of the new session and AuthState holds that user, the
\* new session and initialized = true.
C4_LoginNotGatedOnProfileStore ==
  [][(lg.pc = "resolve" /\ lg'.pc = "idle") =>
        /\ ret'.op = "login" /\ ret'.kind = "user"
        /\ ret'.storeDown =>
             /\ ret'.user =
                  Some(MkUser(lg.session[1].user[1].id,
                              StripNonAlnum(LocalPart(lg.session[1].user[1].email)),
                              lg.session[1].user[1].email,
                              "undefined", "undefined"))
             /\ authState'.user = ret'.user
             /\ authState'.session = lg.session
             /\ authState'.initialized]_vars

\* C5 (as claimed): a register() call that returned a user returned the
\* username it was given, and the profile store holds a row whose id is the
\* id of the returned user.
C5_RegisterKeepsUsername ==
  (ret.op = "register" /\ ret.kind = "user") =>
     /\ ret.user[1].username = UsernameArg
     /\ profiles[ret.user[1].id] # None
     /\ profiles[ret.user[1].id][1].id = ret.user[1].id

\* C6: when the last getSession() attempt of a run fails, the cached session
\* is taken as the run's session if and only if both storage keys are
\* present and expires_at lies less than 7 days in the past; otherwise the
\* run publishes session = null and user = null and ends.  The session a
\* run took is the session it publishes.
C6_StaleCacheBound ==
  [][/\ (/\ init.retryCount = maxRetries - 1
         /\ InitFetch("reject") \/ InitFetch("timeout")) =>
          IF /\ storage.auth_user # None /\ storage.auth_session # None
             /\ NowMs - storage.auth_session[1].expires_at * 1000 < SevenDaysMs
          THEN /\ init'.pc = "resolve"
               /\ init'.newSession # None
               /\ sessionData(init'.newSession[1]) = storage.auth_session[1]
               /\ init'.newSession[1].user[1].id = storage.auth_user[1].id
               /\ authState' = authState
          ELSE /\ init'.pc = "idle"
               /\ authState'.session = None /\ authState'.user = None
               /\ authState'.initialized
     /\ (init.pc = "resolve" /\ init'.pc = "idle") =>
          authState'.session = init.newSession]_vars

\* all three attempts failed and the run goes on with the cached session
\* that expired 6 days ago
C6_Witness ==
  /\ init.pc = "resolve" /\ init.retryCount = maxRetries
  /\ init.newSession[1].expires_at = NowSec - 6 * DaySec

\* the profile lookup of the processSession call under study, as withRetry
\* settles it
PSLookup ==
  withRetry([i \in 1..MAX_RETRY_ATTEMPTS |->
               LookupAttempt(ps.o.lk[i], ps.store, ps.session[1].user[1].id)],
            MAX_RETRY_ATTEMPTS)

PSHasUser == ps.session # None /\ ps.session[1].user # None

\* C7 (as claimed): when the lookup resolves with the row-not-found result
\* (PGRST116) and the reachability probe succeeds, processSession attempts
\* the insert of the minimal profile and, if the insert succeeds, returns
\* the User built from the created row.
C7_LazyProfileCreation ==
  (/\ ps.called /\ PSHasUser
   /\ ~PSLookup.thrown /\ PSLookup.res[1].code = "PGRST116"
   /\ ps.o.probe = "ok") =>
     LET u == ps.session[1].user[1]
         minimal == MkRow(u.id, FallbackUsername(u.email, ps.o.rnd), u.email,
                          "null", "null")
     IN  /\ ps.out.ops = [i \in 1..PSLookup.attempts |-> "select"]
                           \o <<"probe", "insert">>
         /\ ps.o.ins = "ok" =>
              /\ ps.out.store[u.id] = Some(minimal)
              /\ ps.out.ret # None
              /\ ps.out.ret[1].id = u.id
              /\ ps.out.ret[1].username = minimal.username

\* C8: given a session with a user record, if every attempt of the lookup
\* fails with a network- or timeout-classified error, processSession returns
\* the session-only user (the session's id and email, the username derived
\* from the email) and makes no store request beyond the three lookups: no
\* probe, no insert, no update, and the store is left as it was.
C8_DegradesToSessionOnlyUser ==
  (/\ ps.called /\ PSHasUser
   /\ \A i \in 1..MAX_RETRY_ATTEMPTS : ps.o.lk[i] \in {"rejnet", "timeout"}) =>
     LET u == ps.session[1].user[1]
     IN  /\ ~ps.out.thrown
         /\ ps.out.ret # None
         /\ ps.out.ret[1].id = u.id
         /\ ps.out.ret[1].email = u.email
         /\ u.email # <<>> =>
              ps.out.ret[1].username = StripNonAlnum(LocalPart(u.email))
         /\ ps.out.ret[1].first_name = "undefined"
         /\ ps.out.ret[1].last_name = "undefined"
         /\ ps.out.ops = [i \in 1..MAX_RETRY_ATTEMPTS |-> "select"]
         /\ ps.out.store = ps.store

\* a call whose three lookups timed out, for a user whose email has a
\* character that the derivation strips
C8_Witness ==
  /\ ps.called /\ PSHasUser
  /\ \A i \in 1..MAX_RETRY_ATTEMPTS : ps.o.lk[i] = "timeout"
  /\ ps.session[1].user[1].email = Email2
  /\ ps.out.ret[1].username = <<"n", "w">>

\* C9: processSession never rejects, and it resolves to null exactly when
\* the session or its user record is absent; for every behaviour of the
\* profile store a session with a user record yields a non-null User.
C9_ResolverNeverFails ==
  ps.called =>
     /\ ~ps.out.thrown
     /\ (ps.out.ret = None) <=> ~PSHasUser

\* a call where the lookup rejected with an unclassified error, the probe
\* timed out, and the local-only user was returned
C9_Witness ==
  /\ ps.called /\ PSHasUser
  /\ \A i \in 1..MAX_RETRY_ATTEMPTS : ps.o.lk[i] = "rejother"
  /\ ps.o.probe = "timeout"
  /\ ps.out.ret # None /\ ps.out.ops[Len(ps.out.ops)] = "probe"


\* C10 (as claimed): a refreshAuth() call made while no run is in flight
\* starts an initialization run: a getSession() call is issued.
C10_RefreshAuthRunsInitialization ==
  [][(calls' # calls /\ initTick' # initTick /\ ~authInitializing) =>
        (authInitializing' /\ init'.pc = "fetch" /\ init'.retryCount = 0)]_vars

\* C11: once AuthState.initialized is true no step sets it back to false
\* (login, register, logout, refreshAuth, the restoration and the handlers
\* of the four provider events included).
C11_InitializedIsMonotonic ==
  [][authState.initialized => authState'.initialized]_vars

\* after a completed initialization a login() call is past its clearing
\* update, which does not mention initialized
C11_Witness ==
  /\ authState.initialized /\ authInitialized /\ init.pc = "idle"
  /\ lg.pc = "signin" /\ authState.user = None

\* C12 (as claimed): a login() or register() call whose provider call has
\* succeeded does not return {error}, whatever the profile store does.
C12_StoreFailureNotSurfaced ==
  [][/\ (lg.pc = "resolve" /\ lg'.pc = "idle") => ret'.kind = "user"
     /\ (rg.pc \in {"insert", "refetch"} /\ rg'.pc = "idle") =>
          ret'.kind = "user"]_vars

\* C13: when the handler of TOKEN_REFRESHED, given a session with a user,
\* gets an error or no user from getUser(), it publishes user = null and
\* session = null with initialized = true, and both storage keys are gone.
C13_TokenRefreshInvalidUser ==
  [][(ev.pc = "getuser" /\ hret'.n # hret.n
        /\ hret'.via \in {"error", "nouser"}) =>
          /\ ~hret'.thrown
          /\ authState' = [user |-> None, session |-> None,
                           initialized |-> TRUE]
          /\ storage' = [auth_user |-> None, auth_session |-> None]]_vars

\* getUser() returned no user for the refreshed session
C13_Witness ==
  /\ hret.event = "TOKEN_REFRESHED" /\ hret.via = "nouser"
  /\ authState.initialized /\ authState.session = None

\* C14: when signInWithPassword returns an error, login() returns {error}
\* with the provider's message ("Login failed" if it is empty) and no user,
\* and the step publishes nothing.
C14_LoginRejectedCredentials ==
  [][(lg.pc = "signin" /\ lg'.pc = "idle" /\ ret'.provider = "error") =>
        /\ ret'.op = "login" /\ ret'.kind = "error" /\ ret'.user = None
        /\ ret'.msg = IF ret'.providerMsg = "" THEN "Login failed"
                      ELSE ret'.providerMsg
        /\ authState' = authState /\ storage' = storage
        /\ ~isLoading']_vars

\* login() has returned the provider's message
C14_Witness ==
  /\ ret.op = "login" /\ ret.provider = "error"
  /\ ret.msg = "Invalid login credentials"
  /\ authState.user = None /\ authState.session = None

\* C15: a step that changes AuthState or the storage leaves in the storage
\* the projection of the new state if the new state is initialized, and
\* leaves the storage as it was if it is not.
C15_PersistenceGatedOnInitialized ==
  [][(authState' # authState \/ storage' # storage) =>
        IF authState'.initialized
        THEN storage' = storeAuthState(authState')
        ELSE storage' = storage]_vars

\* the cold-start restoration has published the cached user while
\* initialized is false; the cache is as the earlier run left it
C15_Witness ==
  /\ mounted /\ ~authState.initialized /\ authState.user # None
  /\ storage.auth_user = authState.user /\ storage.auth_session # None

\* C16: while AuthState is initialized, auth_user is present exactly when
\* user is non-null and holds that user, and auth_session is present
\* exactly when session is non-null and holds the three token fields of
\* that session and nothing else.
C16_StorageMirrorsState ==
  authState.initialized =>
     /\ storage.auth_user = authState.user
     /\ (storage.auth_session = None) <=> (authState.session = None)
     /\ authState.session # None =>
          /\ DOMAIN storage.auth_session[1] =
               {"access_token", "refresh_token", "expires_at"}
          /\ \A k \in DOMAIN storage.auth_session[1] :
               storage.auth_session[1][k] = authState.session[1][k]

\* a full provider session is published and its projection is stored
C16_Witness ==
  /\ authState.initialized /\ authState.session # None
  /\ authState.session[1].full /\ authState.session[1].user # None
  /\ storage.auth_session # None

\* C17: setupAuthListener subscribes only if the ref is unset; at most one
\* subscription is active at any time, the ref is set exactly while one is,
\* and none is active after the cleanup of an unmount.
C17_ListenerSubscribesOnce ==
  /\ \A n \in 0..2 : setupAuthListener(TRUE, n).subs = n
  /\ subs \in {0, 1}
  /\ sessionListenerSet <=> subs = 1
  /\ unmounted => subs = 0
  /\ (mounted /\ ~unmounted) => subs = 1

\* the effect has run again after initialization: cleanup, then a new
\* subscription
C17_Witness ==
  /\ mounted /\ ~unmounted /\ effectDeps /\ authState.initialized
  /\ subs = 1 /\ cleanup

\* C18 (as claimed): for every outcome of signOut(), logout() returns
\* without throwing, and on return user = null, session = null and
\* isLoading = false.
C18_LogoutNeverSurfacesFailure ==
  [][(lo.pc = "signout" /\ lo'.pc = "idle") =>
        /\ ret'.op = "logout" /\ ret'.kind = "void"
        /\ authState'.user = None /\ authState'.session = None
        /\ ~isLoading']_vars

\* C19 (as claimed): when a handler of the event listener ends, it has not
\* thrown and isLoading is false.
C19_HandlersEndLoading ==
  [][hret'.n # hret.n => (~hret'.thrown /\ ~isLoading')]_vars

\* C20 (as claimed): AuthGuard never returns its children from a render in
\* which the context's user is null.
C20_GuardRequiresUser ==
  guard.shown = "children" => guard.seen.ctx.user

\* the invocations of a withRetry call that fail before the first success
WRFailures ==
  {i \in 1..wr.maxAttempts : \A j \in 1..i : wr.outs[j].thrown}

\* C21: withRetry(operation, maxAttempts) invokes operation at most
\* maxAttempts times; it returns the value of the first successful
\* invocation without invoking operation again; when all maxAttempts
\* invocations fail it rejects with the error of the last one; it sleeps
\* between attempts only, never after the final one.
C21_WithRetryContract ==
  wr.called =>
    LET k == Cardinality(WRFailures)
    IN  /\ wr.out.attempts <= wr.maxAttempts
        /\ IF k < wr.maxAttempts
           THEN /\ ~wr.out.thrown
                /\ wr.out.res = wr.outs[k + 1].res
                /\ wr.out.attempts = k + 1
                /\ wr.out.waits = k
           ELSE /\ wr.out.thrown
                /\ wr.out.err = wr.outs[wr.maxAttempts].err
                /\ wr.out.attempts = wr.maxAttempts
                /\ wr.out.waits = wr.maxAttempts - 1

\* a call whose invocations all failed, the last one with another error
\* than the first
C21_Witness ==
  /\ wr.called /\ wr.maxAttempts >= 2 /\ wr.out.thrown
  /\ wr.outs[1].err # wr.outs[wr.maxAttempts].err
  /\ wr.out.err = wr.outs[wr.maxAttempts].err

\* C22: when initAuth has a session (live or recovered) and the profile
\* resolution has not completed within 5 seconds, the run publishes that
\* session with the session-only user built from it and initialized = true.
C22_SlowProfileStoreKeepsSession ==
  [][InitResolveTimeout =>
       /\ authState'.session = init.newSession
       /\ authState'.session # None
       /\ authState'.user =
            Some(createSessionOnlyUser(init.newSession[1], "0"))
       /\ authState'.user # None
       /\ authState'.initialized]_vars

\* a run that timed out on a session recovered from the cache has ended,
\* and its processSession call is still pending
C22_Witness ==
  /\ init.pc = "idle" /\ authInitialized /\ bg # None /\ ~bg[1].full
  /\ bg[1].user # None
  /\ authState.initialized /\ authState.session = bg
  /\ authState.user = Some(createSessionOnlyUser(bg[1], "0"))

\* C23: once the timer of a raced call of initAuth has fired, the later
\* resolution or rejection of that call (a getSession() attempt, or the
\* processSession call raced against the 5-second timer) changes neither
\* AuthState nor localStorage.
C23_LateResolutionsDiscarded ==
  [][(LateFetch \/ \E o \in MainOracles : LateResolve(o)) =>
       /\ authState' = authState
       /\ storage' = storage]_vars

\* a getSession() call that lost its race has settled while the run that
\* made it is still going on
C23_Witness ==
  /\ init.lateGet = "settled"
  /\ init.pc # "idle"
  /\ authInitializing

\* C24 (as stated): a TOKEN_REFRESHED event whose user getUser() confirms
\* changes the session of AuthState and nothing else of it; a TOKEN_REFRESHED
\* event without a session, or with a session without a user, changes
\* nothing.
C24_TokenRefreshChangesOnlySession ==
  [][/\ (ev.event = "TOKEN_REFRESHED" /\ EventGetUser("ok")) =>
          authState' = [authState EXCEPT !.session = ev.session]
     /\ \A s \in EventSessions :
          (/\ s = None \/ s[1].user = None
           /\ AuthEvent("TOKEN_REFRESHED", s)) =>
             authState' = authState /\ storage' = storage]_vars

\* C24 (amended): a TOKEN_REFRESHED event whose user getUser() confirms
\* publishes the refreshed session, sets initialized and leaves the user of
\* AuthState as it was; a TOKEN_REFRESHED event without a session, or with a
\* session without a user, changes nothing.
C24_TokenRefreshKeepsUser ==
  [][/\ (ev.event = "TOKEN_REFRESHED" /\ EventGetUser("ok")) =>
          /\ authState'.session = ev.session
          /\ authState'.user = authState.user
          /\ authState'.initialized
     /\ \A s \in EventSessions :
          (/\ s = None \/ s[1].user = None
           /\ AuthEvent("TOKEN_REFRESHED", s)) =>
             authState' = authState /\ storage' = storage]_vars

\* a confirmed refresh has replaced the session of a signed-in user, who is
\* still the user of AuthState
C24_Witness ==
  /\ hret.event = "TOKEN_REFRESHED"
  /\ hret.via = "ok"
  /\ authState.user # None
  /\ authState.session = Some(ProviderSession("u1"))
  /\ authState.initialized

\* C25 (as claimed): when login() or the SIGNED_IN handler has published a
\* user and a session while the first initAuth run, started at mount, is
\* still in flight, the step that ends that run leaves the published user
\* and session in AuthState.
C25_ConcurrentWritesDoNotRegress ==
  [][(/\ authInitializing /\ ~authInitialized
      /\ ~authInitializing'
      /\ authState.user # None /\ authState.session # None
      /\ \/ /\ ret.op = "login" /\ ret.kind = "user"
            /\ authState.user = ret.user
         \/ /\ hret.event = "SIGNED_IN" /\ ~hret.thrown
            /\ authState.session = Some(ProviderSession("u1"))) =>
        /\ authState'.user = authState.user
        /\ authState'.session = authState.session]_vars

\* C26 (as claimed): once logout() has cleared the state, no step other than
\* the start or the continuation of a later login(), register() or provider
\* event makes AuthState.user or AuthState.session non-null again, in
\* particular not the end of an initAuth run that began before the logout.
C26_LogoutNotUndone ==
  [][(/\ lo.pc = "signout" \/ ret.op = "logout"
      /\ authState.user = None /\ authState.session = None
      /\ calls' = calls
      /\ lg.pc = "idle" /\ rg.pc = "idle" /\ ev.pc = "idle") =>
        /\ authState'.user = None
        /\ authState'.session = None]_vars

\* C27 (as claimed): every non-null User that processSession returns has the
\* id of the session's user, whatever the profile store does.
C27_IdentityPreserved ==
  (ps.called /\ ps.out.ret # None) =>
     ps.out.ret[1].id = ps.session[1].user[1].id

\* C28 (as claimed): in every AuthState with initialized = true, user is
\* null exactly when session is null.
C28_UserAndSessionTogether ==
  authState.initialized =>
     ((authState.user = None) <=> (authState.session = None))

\* C29: when a getSession() attempt of initAuth resolves with an error
\* result, the run ends in that step: no further attempt is made, the cache
\* in localStorage is not used whatever it holds, the cleared state
\* {session: null, user: null, initialized: true} is published and both
\* storage keys are removed.
C29_ErrorResultEndsInitUnauthenticated ==
  [][InitFetch("error") =>
       /\ init'.pc = "idle"
       /\ ~authInitializing' /\ authInitialized' /\ ~isLoading'
       /\ authState' = Cleared
       /\ storage' = [auth_user |-> None, auth_session |-> None]]_vars

\* a run that ended on the provider's error result while the provider holds
\* a session
C29_Witness ==
  /\ init.pc = "idle" /\ init.caught = "result"
  /\ authInitialized /\ ~authInitializing
  /\ prov # None
  /\ authState = Cleared
  /\ storage = [auth_user |-> None, auth_session |-> None]

\* the hook is at rest: no fetch in progress and no effect run pending
SQQuiescent == sq.pc = "idle" /\ sq.deps = sq.data

\* C30 (as claimed): when refetch is never called and a fetch of the mounted
\* hook has resolved with data, the hook comes to rest for good: from some
\* point on no fetch is in progress and none is about to start.
C30_QueryHookQuiesces ==
  ([](sq.refetches = 0) /\ <>sq.succeeded) => <>[]SQQuiescent

====
